---- MODULE Spec2Model ----
(***************************************************************************)
(* Omnishock: the PS2 controller-emulator session of src/main.rs.          *)
(*                                                                         *)
(* The module models the value codec, the packet builder                   *)
(* (controller_map_twenty_byte / controller_map_seven_byte), the device    *)
(* handshake and the frame loop of send_to_ps2_controller_emulator_via,    *)
(* and send_event_to_controller.                                           *)
(*                                                                         *)
(* Packets are sequences of bytes; Rust's index i is index i + 1 here.     *)
(***************************************************************************)
EXTENDS Integers, Sequences, FiniteSets

VARIABLES
    controller,          \* snapshot of controller #0: [button, axis]
    trigger_mode,        \* "normal" | "right-stick" | "cross-and-square"
    normalise_sticks,    \* BOOLEAN, !no-stick-normalise
    pc,                  \* position in the session / the test harness
    communication_mode,  \* ControllerEmulatorPacketType
    response,            \* the four-byte handshake buffer
    active_controllers,  \* keys of SDLManager.active_controllers
    handshake_ops,       \* transport operations before the frame loop
    frame_ops,           \* transport operations of the current iteration
    drained,             \* events polled in the current iteration
    written,             \* bytes handed to the transport, until it answers
    sent,                \* the packet built by the current update
    received,            \* what the current update returned
    warned,              \* the current update printed the adapter warning
    rumble,              \* set_rumble calls of the current iteration
    delivered,           \* bytes the transport handed to the current update
    argument,            \* arguments of the codec function under test
    returned             \* what the codec function under test returned

vars == << controller, trigger_mode, normalise_sticks, pc, communication_mode,
           response, active_controllers, handshake_ops, frame_ops, drained,
           written, sent, received, warned, rumble, delivered, argument, returned >>

codec_vars == << argument, returned >>

session_vars == << pc, communication_mode, response, active_controllers,
                   handshake_ops, frame_ops, drained, written, received,
                   warned, rumble, delivered >>

----------------------------------------------------------------------------
(* Bounds of the model *)

\* non-neutral inputs (held buttons + deflected axes) of a test snapshot
MaxInputs == 2
\* stale bytes the device holds for clear_serial_buffer over one session
MaxClearReads == 1
\* events one poll_iter() drains before it runs dry
MaxEvents == 2
\* joystick instance ids SDL hands out (0 .. MaxInstanceId)
MaxInstanceId == 1

----------------------------------------------------------------------------
(* Program constants *)

DUALSHOCK_MAGIC == 90
SEVEN_BYTE_OK_RESPONSE == 107
SEVEN_BYTE_ERR_RESPONSE == 120
TWENTY_BYTE_OK_HEADER == DUALSHOCK_MAGIC

\* num::Bounded for the two value types the protocol uses
I16 == [min |-> -32768, max |-> 32767]
U8 == [min |-> 0, max |-> 255]

ControllerEmulatorPacketType == {"None", "SevenByte", "TwentyByte"}

TriggerModes == {"normal", "right-stick", "cross-and-square"}

\* sdl2::controller::Button, as read by the packet builder
Buttons == {"DPadLeft", "DPadDown", "DPadRight", "DPadUp", "Start",
            "RightStick", "LeftStick", "Back", "X", "A", "B", "Y",
            "RightShoulder", "LeftShoulder", "Guide"}

\* sdl2::controller::Axis
StickAxes == {"RightX", "RightY", "LeftX", "LeftY"}
TriggerAxes == {"TriggerLeft", "TriggerRight"}
Axes == StickAxes \cup TriggerAxes

\* the first button byte with index 0 at the least significant bit
Buttons1_lsb_first ==
    [Left |-> 1, Down |-> 2, Right |-> 4, Up |-> 8,
     Start |-> 16, R3 |-> 32, L3 |-> 64, Select |-> 128]

\* bit masks of the two button bytes
Buttons1 == [Left |-> 128, Down |-> 64, Right |-> 32, Up |-> 16,
             Start |-> 8, R3 |-> 4, L3 |-> 2, Select |-> 1]
Buttons2 == [Square |-> 128, Cross |-> 64, Circle |-> 32, Triangle |-> 16,
             R1 |-> 8, L1 |-> 4, R2 |-> 2, L2 |-> 1]

----------------------------------------------------------------------------
(* Integer arithmetic of the value types *)

\* Rust's integer division truncates toward zero
TruncDiv(a, b) == IF a >= 0 THEN a \div b ELSE -((-a) \div b)

Clamp(T, v) == IF v > T.max THEN T.max ELSE IF v < T.min THEN T.min ELSE v

\* two's complement wrap-around into the range of T
Wrap(T, v) == ((v - T.min) % (T.max - T.min + 1)) + T.min

saturating_add(T, a, b) == Clamp(T, a + b)

\* !byte on a u8
Not8(b) == 255 - b

----------------------------------------------------------------------------
(* Value codec *)

\* the midpoint with the division rounding down instead of toward zero
whats_the_midpoint_of_a_floored(T) == (T.max + T.min) \div 2

whats_the_midpoint_of_a(T) == TruncDiv(T.max + T.min, 2)

\* a released button mapped to the centre of the range, not to its minimum
convert_button_to_analog_centred(T, button) == IF button THEN T.max ELSE 0

convert_button_to_analog(T, button) == IF button THEN T.max ELSE T.min

convert_analog_to_button(T, analog) == analog > whats_the_midpoint_of_a(T)

\* convert_for_dualshock without the + 0x80 that moves the centre to 0x80
convert_for_dualshock_unbiased(number) == Wrap(U8, number \div 256)

\* convert_for_dualshock dividing by 256 toward zero instead of shifting
convert_for_dualshock_truncating(number) ==
    Wrap(U8, TruncDiv(number, 256) + 128)

\* (number.wrapping_shr(8) + 0x80) as u8: the shift is arithmetic on an i16
convert_for_dualshock(number) == Wrap(U8, (number \div 256) + 128)

\* convert_half_axis_positive without the special case of the maximum
convert_half_axis_positive_unguarded(T, stick) ==
    LET half_minimum == TruncDiv(T.min, 2)
        normalised_stick == saturating_add(T, stick, half_minimum)
    IN  saturating_add(T, normalised_stick, normalised_stick)

convert_half_axis_positive(T, stick) ==
    IF stick = T.max
    THEN T.max
    ELSE LET half_minimum == TruncDiv(T.min, 2)
             normalised_stick == saturating_add(T, stick, half_minimum)
         IN  saturating_add(T, normalised_stick, normalised_stick)

\* convert_half_axis_negative negating the stick as it is, without the + 1
convert_half_axis_negative_unbiased(T, stick) ==
    convert_half_axis_positive(T, Wrap(T, -stick))

convert_half_axis_negative(T, stick) ==
    convert_half_axis_positive(T, Wrap(T, -saturating_add(T, stick, 1)))

\* one coordinate with an addition that wraps around instead of saturating
normalise_coordinate_wrapping(c) == Wrap(I16, c + TruncDiv(c, 10))

\* one coordinate of normalise_stick_as_dualshock2
normalise_coordinate(c) == saturating_add(I16, c, TruncDiv(c, 10))

normalise_stick_as_dualshock2(x, y) ==
    [x |-> normalise_coordinate(x), y |-> normalise_coordinate(y)]

----------------------------------------------------------------------------
(* Packet builder *)

\* FauxController::create_with_name: no button held, every axis at 0
NeutralController ==
    [button |-> [b \in Buttons |-> FALSE], axis |-> [a \in Axes |-> 0]]

\* the i16 values of the inputs before the trigger mode is applied
default_values(c) ==
    [dpad_left_value |-> convert_button_to_analog(I16, c.button["DPadLeft"]),
     dpad_down_value |-> convert_button_to_analog(I16, c.button["DPadDown"]),
     dpad_right_value |-> convert_button_to_analog(I16, c.button["DPadRight"]),
     dpad_up_value |-> convert_button_to_analog(I16, c.button["DPadUp"]),
     start_value |-> convert_button_to_analog(I16, c.button["Start"]),
     right_stick_value |-> convert_button_to_analog(I16, c.button["RightStick"]),
     left_stick_value |-> convert_button_to_analog(I16, c.button["LeftStick"]),
     select_value |-> convert_button_to_analog(I16, c.button["Back"]),
     square_value |-> convert_button_to_analog(I16, c.button["X"]),
     cross_value |-> convert_button_to_analog(I16, c.button["A"]),
     circle_value |-> convert_button_to_analog(I16, c.button["B"]),
     triangle_value |-> convert_button_to_analog(I16, c.button["Y"]),
     r1_button_value |-> convert_button_to_analog(I16, c.button["RightShoulder"]),
     l1_button_value |-> convert_button_to_analog(I16, c.button["LeftShoulder"]),
     r2_button_value |-> convert_half_axis_positive(I16, c.axis["TriggerRight"]),
     l2_button_value |-> convert_half_axis_positive(I16, c.axis["TriggerLeft"]),
     right_stick_x_value |-> c.axis["RightX"],
     right_stick_y_value |-> c.axis["RightY"],
     left_stick_x_value |-> c.axis["LeftX"],
     left_stick_y_value |-> c.axis["LeftY"]]

\* handle_trigger_mode with right-stick adding the two trigger axes
handle_trigger_mode_adding(c, mode, v) ==
    IF mode = "right-stick"
    THEN [v EXCEPT
            !.l2_button_value = convert_half_axis_negative(I16, c.axis["RightY"]),
            !.r2_button_value = convert_half_axis_positive(I16, c.axis["RightY"]),
            !.cross_value = convert_button_to_analog(I16, c.button["A"]),
            !.square_value = convert_button_to_analog(I16, c.button["X"]),
            !.right_stick_y_value =
                Wrap(I16, c.axis["TriggerLeft"] + c.axis["TriggerRight"])]
    ELSE IF mode = "cross-and-square"
    THEN [v EXCEPT
            !.l2_button_value = convert_button_to_analog(I16, c.button["A"]),
            !.r2_button_value = convert_button_to_analog(I16, c.button["X"]),
            !.cross_value = convert_half_axis_positive(I16, c.axis["TriggerRight"]),
            !.square_value = convert_half_axis_positive(I16, c.axis["TriggerLeft"])]
    ELSE v

\* handle_trigger_mode with right-stick taking L2 and R2 from the same
\* half of the stick
handle_trigger_mode_one_half(c, mode, v) ==
    IF mode = "right-stick"
    THEN [v EXCEPT
            !.l2_button_value = convert_half_axis_positive(I16, c.axis["RightY"]),
            !.r2_button_value = convert_half_axis_positive(I16, c.axis["RightY"]),
            !.cross_value = convert_button_to_analog(I16, c.button["A"]),
            !.square_value = convert_button_to_analog(I16, c.button["X"]),
            !.right_stick_y_value =
                Wrap(I16, c.axis["TriggerLeft"] - c.axis["TriggerRight"])]
    ELSE IF mode = "cross-and-square"
    THEN [v EXCEPT
            !.l2_button_value = convert_button_to_analog(I16, c.button["A"]),
            !.r2_button_value = convert_button_to_analog(I16, c.button["X"]),
            !.cross_value = convert_half_axis_positive(I16, c.axis["TriggerRight"]),
            !.square_value = convert_half_axis_positive(I16, c.axis["TriggerLeft"])]
    ELSE v

\* handle_trigger_mode with the triggers of cross-and-square the other way
\* round: Cross from the left trigger, Square from the right one
handle_trigger_mode_swapped(c, mode, v) ==
    IF mode = "right-stick"
    THEN [v EXCEPT
            !.l2_button_value = convert_half_axis_negative(I16, c.axis["RightY"]),
            !.r2_button_value = convert_half_axis_positive(I16, c.axis["RightY"]),
            !.cross_value = convert_button_to_analog(I16, c.button["A"]),
            !.square_value = convert_button_to_analog(I16, c.button["X"]),
            !.right_stick_y_value =
                Wrap(I16, c.axis["TriggerLeft"] - c.axis["TriggerRight"])]
    ELSE IF mode = "cross-and-square"
    THEN [v EXCEPT
            !.l2_button_value = convert_button_to_analog(I16, c.button["A"]),
            !.r2_button_value = convert_button_to_analog(I16, c.button["X"]),
            !.cross_value = convert_half_axis_positive(I16, c.axis["TriggerLeft"]),
            !.square_value = convert_half_axis_positive(I16, c.axis["TriggerRight"])]
    ELSE v

\* handle_trigger_mode with right-stick taking L2 and R2 from the stick
\* after the trigger difference has replaced it
handle_trigger_mode_late(c, mode, v) ==
    IF mode = "right-stick"
    THEN LET y == Wrap(I16, c.axis["TriggerLeft"] - c.axis["TriggerRight"])
         IN  [v EXCEPT
                !.l2_button_value = convert_half_axis_negative(I16, y),
                !.r2_button_value = convert_half_axis_positive(I16, y),
                !.cross_value = convert_button_to_analog(I16, c.button["A"]),
                !.square_value = convert_button_to_analog(I16, c.button["X"]),
                !.right_stick_y_value = y]
    ELSE IF mode = "cross-and-square"
    THEN [v EXCEPT
            !.l2_button_value = convert_button_to_analog(I16, c.button["A"]),
            !.r2_button_value = convert_button_to_analog(I16, c.button["X"]),
            !.cross_value = convert_half_axis_positive(I16, c.axis["TriggerRight"]),
            !.square_value = convert_half_axis_positive(I16, c.axis["TriggerLeft"])]
    ELSE v

\* match trigger_mode { "right-stick" => .., "cross-and-square" => .., _ => () }
\* The i16 subtraction of the two trigger axes wraps in a release build.
handle_trigger_mode(c, mode, v) ==
    IF mode = "right-stick"
    THEN [v EXCEPT
            !.l2_button_value = convert_half_axis_negative(I16, c.axis["RightY"]),
            !.r2_button_value = convert_half_axis_positive(I16, c.axis["RightY"]),
            !.cross_value = convert_button_to_analog(I16, c.button["A"]),
            !.square_value = convert_button_to_analog(I16, c.button["X"]),
            !.right_stick_y_value =
                Wrap(I16, c.axis["TriggerLeft"] - c.axis["TriggerRight"])]
    ELSE IF mode = "cross-and-square"
    THEN [v EXCEPT
            !.l2_button_value = convert_button_to_analog(I16, c.button["A"]),
            !.r2_button_value = convert_button_to_analog(I16, c.button["X"]),
            !.cross_value = convert_half_axis_positive(I16, c.axis["TriggerRight"]),
            !.square_value = convert_half_axis_positive(I16, c.axis["TriggerLeft"])]
    ELSE v

\* the normalisation storing the right stick's X into the D-pad's right value
handle_normalise_sticks_onto_dpad(normalise, v) ==
    IF normalise
    THEN LET right == normalise_stick_as_dualshock2(v.right_stick_x_value,
                                                    v.right_stick_y_value)
             left == normalise_stick_as_dualshock2(v.left_stick_x_value,
                                                   v.left_stick_y_value)
         IN  [v EXCEPT !.dpad_right_value = right.x,
                       !.right_stick_y_value = right.y,
                       !.left_stick_x_value = left.x,
                       !.left_stick_y_value = left.y]
    ELSE v

\* if normalise_sticks { normalise both sticks }
handle_normalise_sticks(normalise, v) ==
    IF normalise
    THEN LET right == normalise_stick_as_dualshock2(v.right_stick_x_value,
                                                    v.right_stick_y_value)
             left == normalise_stick_as_dualshock2(v.left_stick_x_value,
                                                   v.left_stick_y_value)
         IN  [v EXCEPT !.right_stick_x_value = right.x,
                       !.right_stick_y_value = right.y,
                       !.left_stick_x_value = left.x,
                       !.left_stick_y_value = left.y]
    ELSE v

\* the values the packet is assembled from
controller_values(c, mode, normalise) ==
    handle_normalise_sticks(normalise,
                            handle_trigger_mode(c, mode, default_values(c)))

\* bitflags set(flag, pressed) on an empty set: the flag's mask or nothing
Flag(mask, value) == IF convert_analog_to_button(I16, value) THEN mask ELSE 0

buttons1_bits(v) ==
    Flag(Buttons1.Left, v.dpad_left_value)
    + Flag(Buttons1.Down, v.dpad_down_value)
    + Flag(Buttons1.Right, v.dpad_right_value)
    + Flag(Buttons1.Up, v.dpad_up_value)
    + Flag(Buttons1.Start, v.start_value)
    + Flag(Buttons1.R3, v.right_stick_value)
    + Flag(Buttons1.L3, v.left_stick_value)
    + Flag(Buttons1.Select, v.select_value)

buttons2_bits(v) ==
    Flag(Buttons2.Square, v.square_value)
    + Flag(Buttons2.Cross, v.cross_value)
    + Flag(Buttons2.Circle, v.circle_value)
    + Flag(Buttons2.Triangle, v.triangle_value)
    + Flag(Buttons2.R1, v.r1_button_value)
    + Flag(Buttons2.L1, v.l1_button_value)
    + Flag(Buttons2.R2, v.r2_button_value)
    + Flag(Buttons2.L2, v.l2_button_value)

\* the footer with its two values the other way round
mode_footer_inverted(c) == IF c.button["Guide"] THEN 85 ELSE 170

mode_footer(c) == IF c.button["Guide"] THEN 170 ELSE 85

\* the packet with the pressure bytes of L1 and R1 in each other's place
assemble_packet_shoulders_swapped(c, v) ==
    << DUALSHOCK_MAGIC,
       Not8(buttons1_bits(v)),
       Not8(buttons2_bits(v)),
       convert_for_dualshock(v.right_stick_x_value),
       convert_for_dualshock(v.right_stick_y_value),
       convert_for_dualshock(v.left_stick_x_value),
       convert_for_dualshock(v.left_stick_y_value),
       convert_for_dualshock(v.dpad_right_value),
       convert_for_dualshock(v.dpad_left_value),
       convert_for_dualshock(v.dpad_up_value),
       convert_for_dualshock(v.dpad_down_value),
       convert_for_dualshock(v.triangle_value),
       convert_for_dualshock(v.circle_value),
       convert_for_dualshock(v.cross_value),
       convert_for_dualshock(v.square_value),
       convert_for_dualshock(v.r1_button_value),
       convert_for_dualshock(v.l1_button_value),
       convert_for_dualshock(v.l2_button_value),
       convert_for_dualshock(v.r2_button_value),
       mode_footer(c) >>

\* the vec![..] the builder returns
assemble_packet(c, v) ==
    << DUALSHOCK_MAGIC,
       Not8(buttons1_bits(v)),
       Not8(buttons2_bits(v)),
       convert_for_dualshock(v.right_stick_x_value),
       convert_for_dualshock(v.right_stick_y_value),
       convert_for_dualshock(v.left_stick_x_value),
       convert_for_dualshock(v.left_stick_y_value),
       convert_for_dualshock(v.dpad_right_value),
       convert_for_dualshock(v.dpad_left_value),
       convert_for_dualshock(v.dpad_up_value),
       convert_for_dualshock(v.dpad_down_value),
       convert_for_dualshock(v.triangle_value),
       convert_for_dualshock(v.circle_value),
       convert_for_dualshock(v.cross_value),
       convert_for_dualshock(v.square_value),
       convert_for_dualshock(v.l1_button_value),
       convert_for_dualshock(v.r1_button_value),
       convert_for_dualshock(v.l2_button_value),
       convert_for_dualshock(v.r2_button_value),
       mode_footer(c) >>

controller_map_twenty_byte(c, mode, normalise) ==
    assemble_packet(c, controller_values(c, mode, normalise))

\* truncate that keeps one element too few
truncate_one_short(v, len) == IF Len(v) > len THEN SubSeq(v, 1, len - 1) ELSE v

\* map.truncate(7)
truncate(v, len) == IF Len(v) > len THEN SubSeq(v, 1, len) ELSE v

controller_map_seven_byte(c, mode, normalise) ==
    truncate(controller_map_twenty_byte(c, mode, normalise), 7)

----------------------------------------------------------------------------
(* The builder under the test fixture of main.rs: a FauxController whose   *)
(* buttons and axes are set one at a time, mapped after every change.      *)

\* axis positions the fixture is driven to; triggers rest at 0 and go up
StickSample == {-32768, -16386, -16385, -4096, 0, 255, 16384, 16385, 32767}
TriggerSample == {0, 16384, 16385, 32767}

AxisSample(a) == IF a \in TriggerAxes THEN TriggerSample ELSE StickSample

\* the state controller_map_twenty_byte_works drives the controller to
ScenarioController ==
    [button |-> [b \in Buttons |-> b \in {"DPadLeft", "A"}],
     axis |-> [a \in Axes |->
                 CASE a = "TriggerLeft" -> 32767
                   [] a = "RightX" -> -24000
                   [] a = "RightY" -> 16500
                   [] a = "LeftX" -> 255
                   [] a = "LeftY" -> -4096
                   [] OTHER -> 0]]

\* inputs away from their rest position
NonNeutral(c) ==
    Cardinality({b \in Buttons : c.button[b]})
    + Cardinality({a \in Axes : c.axis[a] # 0})

\* the fixture changes one input: within the bound, or back toward neutral
WithinBound(old, new) ==
    \/ NonNeutral(new) <= MaxInputs
    \/ NonNeutral(new) < NonNeutral(old)

SessionIdle ==
    /\ pc = "test"
    /\ communication_mode = "None"
    /\ response = << 0, 0, 0, 0 >>
    /\ active_controllers = {0}
    /\ handshake_ops = << >>
    /\ frame_ops = << >>
    /\ drained = 0
    /\ written = << >>
    /\ received = << >>
    /\ warned = FALSE
    /\ rumble = << >>
    /\ delivered = << >>

\* no codec function is being called on its own
CodecIdle ==
    /\ argument = << >>
    /\ returned = << >>

HarnessInit ==
    /\ controller \in {NeutralController, ScenarioController}
    /\ trigger_mode = "normal"
    /\ normalise_sticks = TRUE
    /\ sent = << >>
    /\ SessionIdle
    /\ CodecIdle

\* FauxController::set_button, between two calls of the map under test
set_button(button, value) ==
    /\ pc = "test"
    /\ controller.button[button] # value
    /\ LET new == [controller EXCEPT !.button[button] = value]
       IN  /\ WithinBound(controller, new)
           /\ controller' = new
    /\ UNCHANGED << codec_vars, trigger_mode, normalise_sticks, sent, session_vars >>

\* FauxController::set_axis, between two calls of the map under test
set_axis(axis, value) ==
    /\ pc = "test"
    /\ controller.axis[axis] # value
    /\ LET new == [controller EXCEPT !.axis[axis] = value]
       IN  /\ WithinBound(controller, new)
           /\ controller' = new
    /\ UNCHANGED << codec_vars, trigger_mode, normalise_sticks, sent, session_vars >>

harness_vars == << communication_mode, response, active_controllers,
                   handshake_ops, frame_ops, drained, written, received,
                   warned, rumble, delivered >>

\* the call under test: controller_map_twenty_byte(&controller, mode, normalise)
map_twenty_byte(mode, normalise) ==
    /\ pc = "test"
    /\ pc' = "twenty"
    /\ trigger_mode' = mode
    /\ normalise_sticks' = normalise
    /\ sent' = controller_map_twenty_byte(controller, mode, normalise)
    /\ UNCHANGED << codec_vars, controller, harness_vars >>

\* the call under test: controller_map_seven_byte(&controller, mode, normalise)
map_seven_byte(mode, normalise) ==
    /\ pc = "test"
    /\ pc' = "seven"
    /\ trigger_mode' = mode
    /\ normalise_sticks' = normalise
    /\ sent' = controller_map_seven_byte(controller, mode, normalise)
    /\ UNCHANGED << codec_vars, controller, harness_vars >>

\* the assert_eq! is over: the returned vector and the arguments are dropped
drop_packet ==
    /\ pc \in {"seven", "twenty"}
    /\ pc' = "test"
    /\ sent' = << >>
    /\ trigger_mode' = "normal"
    /\ normalise_sticks' = TRUE
    /\ UNCHANGED << codec_vars, controller, harness_vars >>

HarnessNext ==
    \/ \E b \in Buttons, v \in BOOLEAN : set_button(b, v)
    \/ \E a \in Axes : \E v \in AxisSample(a) : set_axis(a, v)
    \/ \E m \in TriggerModes, n \in BOOLEAN : map_twenty_byte(m, n)
    \/ \E m \in TriggerModes, n \in BOOLEAN : map_seven_byte(m, n)
    \/ drop_packet

SpecBuilder == HarnessInit /\ [][HarnessNext]_vars

----------------------------------------------------------------------------
(* The value codec under the unit tests of main.rs: one function is called *)
(* on one argument, its return value is compared, and the next call starts.*)

\* the value types the builder instantiates the generic functions with
ValueTypes == {U8, I16}

Values(T) == T.min .. T.max

CodecInit ==
    /\ controller = NeutralController
    /\ trigger_mode = "normal"
    /\ normalise_sticks = TRUE
    /\ pc = "codec"
    /\ communication_mode = "None"
    /\ response = << 0, 0, 0, 0 >>
    /\ active_controllers = {0}
    /\ handshake_ops = << >>
    /\ frame_ops = << >>
    /\ drained = 0
    /\ written = << >>
    /\ sent = << >>
    /\ received = << >>
    /\ warned = FALSE
    /\ rumble = << >>
    /\ delivered = << >>
    /\ CodecIdle

codec_fixed == << controller, trigger_mode, normalise_sticks,
                  communication_mode, response, active_controllers,
                  handshake_ops, frame_ops, drained, written, sent,
                  received, warned, rumble, delivered >>

\* convert_button_to_analog::<T>(button)
call_convert_button_to_analog(T, button) ==
    /\ pc = "codec"
    /\ pc' = "convert_button_to_analog"
    /\ argument' = << T, button >>
    /\ returned' = << convert_button_to_analog(T, button) >>
    /\ UNCHANGED codec_fixed

\* convert_analog_to_button(analog) with analog: T
call_convert_analog_to_button(T, analog) ==
    /\ pc = "codec"
    /\ pc' = "convert_analog_to_button"
    /\ argument' = << T, analog >>
    /\ returned' = << convert_analog_to_button(T, analog) >>
    /\ UNCHANGED codec_fixed

\* convert_half_axis_positive(stick) with stick: i16
call_convert_half_axis_positive(stick) ==
    /\ pc = "codec"
    /\ pc' = "convert_half_axis_positive"
    /\ argument' = << I16, stick >>
    /\ returned' = << convert_half_axis_positive(I16, stick) >>
    /\ UNCHANGED codec_fixed

\* convert_half_axis_negative(stick) with stick: i16
call_convert_half_axis_negative(stick) ==
    /\ pc = "codec"
    /\ pc' = "convert_half_axis_negative"
    /\ argument' = << I16, stick >>
    /\ returned' = << convert_half_axis_negative(I16, stick) >>
    /\ UNCHANGED codec_fixed

\* convert_for_dualshock(number)
call_convert_for_dualshock(number) ==
    /\ pc = "codec"
    /\ pc' = "convert_for_dualshock"
    /\ argument' = << I16, number >>
    /\ returned' = << convert_for_dualshock(number) >>
    /\ UNCHANGED codec_fixed

\* controller_map_twenty_byte in right-stick mode on a controller at rest but
\* for its right stick's Y axis: the second button byte of the packet
call_map_right_stick_as_trigger(stick) ==
    /\ pc = "codec"
    /\ pc' = "map_right_stick_as_trigger"
    /\ argument' = << I16, stick >>
    /\ returned' =
          << controller_map_twenty_byte(
                 [NeutralController EXCEPT !.axis["RightY"] = stick],
                 "right-stick", FALSE)[3] >>
    /\ UNCHANGED codec_fixed

U8_TO_U16_MAGNITUDE == 65535 \div 255

\* the motor intensity as a byte shifted left by eight bits
motor_intensity_shifted(byte) == byte * 256

\* u16::from(response[n]) * U8_TO_U16_MAGNITUDE: the product as an integer,
\* before it is stored into a u16
motor_intensity(byte) == byte * U8_TO_U16_MAGNITUDE

\* the scaling of one response byte, on its own
call_motor_intensity(byte) ==
    /\ pc = "codec"
    /\ pc' = "motor_intensity"
    /\ argument' = << U8, byte >>
    /\ returned' = << motor_intensity(byte) >>
    /\ UNCHANGED codec_fixed

\* the assert_eq! is over: argument and return value are dropped
drop_returned ==
    /\ pc # "codec"
    /\ pc' = "codec"
    /\ argument' = << >>
    /\ returned' = << >>
    /\ UNCHANGED codec_fixed

\* a call starts only between two assertions
CodecNext ==
    \/ /\ pc = "codec"
       /\ \E T \in ValueTypes, b \in BOOLEAN :
             call_convert_button_to_analog(T, b)
    \/ /\ pc = "codec"
       /\ \E T \in ValueTypes : \E v \in Values(T) :
             call_convert_analog_to_button(T, v)
    \/ /\ pc = "codec"
       /\ \E v \in Values(I16) : call_convert_half_axis_positive(v)
    \/ /\ pc = "codec"
       /\ \E v \in Values(I16) : call_convert_half_axis_negative(v)
    \/ /\ pc = "codec"
       /\ \E v \in Values(I16) : call_convert_for_dualshock(v)
    \/ /\ pc = "codec"
       /\ \E b \in Values(U8) : call_motor_intensity(b)
    \/ /\ pc = "codec"
       /\ \E v \in Values(I16) : call_map_right_stick_as_trigger(v)
    \/ drop_returned

SpecCodec == CodecInit /\ [][CodecNext]_vars

----------------------------------------------------------------------------
(* The serial transport and the controller registry *)

\* what the device answers with: the first byte tells the firmwares apart,
\* the next two are the motor intensities of the twenty-byte firmware
FirstBytes == {0, TWENTY_BYTE_OK_HEADER, SEVEN_BYTE_OK_RESPONSE,
               SEVEN_BYTE_ERR_RESPONSE}
MotorPairs == { << 0, 0 >>, << 64, 255 >> }
DeviceFrames == { << b, m[1], m[2], 85 >> : b \in FirstBytes, m \in MotorPairs }

\* one read into a four-byte buffer returns any leading part of a frame
Responses == { SubSeq(f, 1, n) : f \in DeviceFrames, n \in 0..4 }

\* serial.read(&mut buffer) returned Ok(Len(bytes)): the rest is untouched
read_into(buffer, bytes) ==
    [i \in 1..Len(buffer) |-> IF i <= Len(bytes) THEN bytes[i] ELSE buffer[i]]

InstanceIds == 0..MaxInstanceId

\* controller states the input layer reports while the loop runs; SDL hands
\* out instance ids itself, so any id may come with an added device
GuideController == [NeutralController EXCEPT !.button["Guide"] = TRUE]
SessionSnapshots == {NeutralController, ScenarioController, GuideController}

\* successful one-byte reads of clear_serial_buffer so far
Cleared == Cardinality({i \in 1..Len(handshake_ops) :
                           handshake_ops[i] = "clear_read"})

----------------------------------------------------------------------------
(* send_to_ps2_controller_emulator_via: the handshake *)

Init ==
    /\ controller = NeutralController
    /\ trigger_mode \in TriggerModes
    /\ normalise_sticks \in BOOLEAN
    /\ pc = "clear1"
    /\ communication_mode = "None"
    /\ response = << 0, 0, 0, 0 >>
    /\ active_controllers \in {{}, {0}}
    /\ handshake_ops = << >>
    /\ frame_ops = << >>
    /\ drained = 0
    /\ written = << >>
    /\ sent = << >>
    /\ received = << >>
    /\ warned = FALSE
    /\ rumble = << >>
    /\ delivered = << >>
    /\ CodecIdle

\* where the session goes when a clear_serial_buffer call returns
after_clear(at) == IF at = "clear1" THEN "probe" ELSE "events"

\* clear_serial_buffer: a one-byte read succeeded (with or without a byte),
\* so the loop reads again
clear_read_ok ==
    /\ pc \in {"clear1", "clear2"}
    /\ Cleared < MaxClearReads
    /\ handshake_ops' = Append(handshake_ops, "clear_read")
    /\ UNCHANGED << codec_vars, delivered, controller, trigger_mode, normalise_sticks, pc,
                    communication_mode, response, active_controllers,
                    frame_ops, drained, written, sent, received, warned,
                    rumble >>

\* clear_serial_buffer: the read timed out, which ends the loop
clear_read_timed_out ==
    /\ pc \in {"clear1", "clear2"}
    /\ handshake_ops' = Append(handshake_ops, "clear_timeout")
    /\ pc' = after_clear(pc)
    /\ UNCHANGED << codec_vars, delivered, controller, trigger_mode, normalise_sticks,
                    communication_mode, response, active_controllers,
                    frame_ops, drained, written, sent, received, warned,
                    rumble >>

\* clear_serial_buffer taking every read error for the end of the buffer
clear_read_failed_as_timeout ==
    /\ pc \in {"clear1", "clear2"}
    /\ handshake_ops' = Append(handshake_ops, "clear_error")
    /\ pc' = after_clear(pc)
    /\ UNCHANGED << codec_vars, delivered, controller, trigger_mode, normalise_sticks,
                    communication_mode, response, active_controllers,
                    frame_ops, drained, written, sent, received, warned,
                    rumble >>

\* clear_serial_buffer: any other read error panics
clear_read_failed ==
    /\ pc \in {"clear1", "clear2"}
    /\ handshake_ops' = Append(handshake_ops, "clear_error")
    /\ pc' = "panicked"
    /\ UNCHANGED << codec_vars, delivered, controller, trigger_mode, normalise_sticks,
                    communication_mode, response, active_controllers,
                    frame_ops, drained, written, sent, received, warned,
                    rumble >>

\* serial.write_all(&[neutral twenty-byte packet])?
ProbePacket ==
    << DUALSHOCK_MAGIC, Not8(0), Not8(0), 128, 128, 128, 128,
       0, 0, 0, 0, 0, 0, 0, 0, 0, 0, 0, 0, 85 >>

write_probe(ok) ==
    /\ pc = "probe"
    /\ written' = IF ok THEN ProbePacket ELSE << >>
    /\ handshake_ops' =
           Append(handshake_ops, IF ok THEN "probe_write" ELSE "probe_write_error")
    /\ pc' = IF ok THEN "handshake_read" ELSE "failed"
    /\ UNCHANGED << codec_vars, delivered, controller, trigger_mode, normalise_sticks,
                    communication_mode, response, active_controllers,
                    frame_ops, drained, sent, received, warned, rumble >>

\* classify with the firmware's success character taken for its error one
classify_on_ok_response(first, mode) ==
    IF first = TWENTY_BYTE_OK_HEADER THEN "TwentyByte"
    ELSE IF first = SEVEN_BYTE_OK_RESPONSE THEN "SevenByte"
    ELSE mode

\* the if / else if / else on response[0]: no branch assigns in the else
classify(first, mode) ==
    IF first = TWENTY_BYTE_OK_HEADER THEN "TwentyByte"
    ELSE IF first = SEVEN_BYTE_ERR_RESPONSE THEN "SevenByte"
    ELSE mode

\* the handshake read going straight to the frame loop, buffer not cleared
handshake_read_ok_unclear(bytes) ==
    /\ pc = "handshake_read"
    /\ response' = read_into(response, bytes)
    /\ communication_mode' = classify(response'[1], communication_mode)
    /\ handshake_ops' = Append(handshake_ops, "handshake_read")
    /\ written' = << >>
    /\ pc' = "events"
    /\ UNCHANGED << codec_vars, delivered, controller, trigger_mode, normalise_sticks,
                    active_controllers, frame_ops, drained, sent, received,
                    warned, rumble >>

\* the handshake taking a read of zero bytes for the twenty-byte firmware
handshake_read_ok_zero_length_extended(bytes) ==
    /\ pc = "handshake_read"
    /\ response' = read_into(response, bytes)
    /\ communication_mode' =
           IF Len(bytes) = 0 THEN "TwentyByte"
           ELSE classify(response'[1], communication_mode)
    /\ handshake_ops' = Append(handshake_ops, "handshake_read")
    /\ written' = << >>
    /\ pc' = "clear2"
    /\ UNCHANGED << codec_vars, delivered, controller, trigger_mode, normalise_sticks,
                    active_controllers, frame_ops, drained, sent, received,
                    warned, rumble >>

\* match serial.read(&mut response) { Ok(_) => .. }
handshake_read_ok(bytes) ==
    /\ pc = "handshake_read"
    /\ response' = read_into(response, bytes)
    /\ communication_mode' = classify(response'[1], communication_mode)
    /\ handshake_ops' = Append(handshake_ops, "handshake_read")
    /\ written' = << >>
    /\ pc' = "clear2"
    /\ UNCHANGED << codec_vars, delivered, controller, trigger_mode, normalise_sticks,
                    active_controllers, frame_ops, drained, sent, received,
                    warned, rumble >>

\* match serial.read(&mut response) { Err(error) => println!(..) }
handshake_read_failed ==
    /\ pc = "handshake_read"
    /\ handshake_ops' = Append(handshake_ops, "handshake_read_error")
    /\ written' = << >>
    /\ pc' = "clear2"
    /\ UNCHANGED << codec_vars, delivered, controller, trigger_mode, normalise_sticks,
                    communication_mode, response, active_controllers,
                    frame_ops, drained, sent, received, warned, rumble >>

----------------------------------------------------------------------------
(* send_to_ps2_controller_emulator_via: the frame loop *)

\* Event::ControllerDeviceAdded: has_controller, then add_controller.  The
\* device index resolves to instance id `id`; when the device cannot be
\* opened nothing is registered.  A newly opened controller is at rest.
controller_device_added(id, opened) ==
    /\ pc = "events"
    /\ drained < MaxEvents
    /\ drained' = drained + 1
    /\ IF opened /\ id \notin active_controllers
       THEN /\ active_controllers' = active_controllers \cup {id}
            /\ controller' = IF id = 0 THEN NeutralController ELSE controller
       ELSE UNCHANGED << active_controllers, controller >>
    /\ UNCHANGED << codec_vars, delivered, trigger_mode, normalise_sticks, pc, communication_mode,
                    response, handshake_ops, frame_ops, written, sent,
                    received, warned, rumble >>

\* remove_controller that also forgets the dialect when controller #0 goes
controller_device_removed_forgetting(id) ==
    /\ pc = "events"
    /\ drained < MaxEvents
    /\ drained' = drained + 1
    /\ active_controllers' = active_controllers \ {id}
    /\ controller' = IF id = 0 THEN NeutralController ELSE controller
    /\ communication_mode' = IF id = 0 THEN "None" ELSE communication_mode
    /\ UNCHANGED << codec_vars, delivered, trigger_mode, normalise_sticks, pc, response,
                    handshake_ops, frame_ops, written, sent, received, warned,
                    rumble >>

\* Event::ControllerDeviceRemoved: SDLManager::remove_controller
controller_device_removed(id) ==
    /\ pc = "events"
    /\ drained < MaxEvents
    /\ drained' = drained + 1
    /\ active_controllers' = active_controllers \ {id}
    /\ controller' = IF id = 0 THEN NeutralController ELSE controller
    /\ UNCHANGED << codec_vars, delivered, trigger_mode, normalise_sticks, pc, communication_mode,
                    response, handshake_ops, frame_ops, written, sent,
                    received, warned, rumble >>

\* an input event taken also while the update waits for its response
controller_input_any_time(snapshot) ==
    /\ pc \in {"events", "read"}
    /\ drained < MaxEvents
    /\ 0 \in active_controllers
    /\ drained' = drained + 1
    /\ controller' = snapshot
    /\ UNCHANGED << codec_vars, delivered, trigger_mode, normalise_sticks, pc, communication_mode,
                    response, active_controllers, handshake_ops, frame_ops,
                    written, sent, received, warned, rumble >>

\* any other event (_ => ()): a button or axis event of controller #0 comes
\* with the new state of that controller
controller_input(snapshot) ==
    /\ pc = "events"
    /\ drained < MaxEvents
    /\ 0 \in active_controllers
    /\ drained' = drained + 1
    /\ controller' = snapshot
    /\ UNCHANGED << codec_vars, delivered, trigger_mode, normalise_sticks, pc, communication_mode,
                    response, active_controllers, handshake_ops, frame_ops,
                    written, sent, received, warned, rumble >>

\* a quit that also cuts short an update waiting for its response
quit_interrupting ==
    /\ pc \in {"events", "read"}
    /\ drained < MaxEvents
    /\ drained' = drained + 1
    /\ pc' = "done"
    /\ UNCHANGED << codec_vars, delivered, controller, trigger_mode, normalise_sticks,
                    communication_mode, response, active_controllers,
                    handshake_ops, frame_ops, written, sent, received, warned,
                    rumble >>

\* Event::Quit => break 'outer, and the function returns Ok(())
quit ==
    /\ pc = "events"
    /\ drained < MaxEvents
    /\ drained' = drained + 1
    /\ pc' = "done"
    /\ UNCHANGED << codec_vars, delivered, controller, trigger_mode, normalise_sticks,
                    communication_mode, response, active_controllers,
                    handshake_ops, frame_ops, written, sent, received, warned,
                    rumble >>

\* poll_iter() is exhausted
events_drained ==
    /\ pc = "events"
    /\ pc' = "update"
    /\ UNCHANGED << codec_vars, delivered, controller, trigger_mode, normalise_sticks,
                    communication_mode, response, active_controllers,
                    handshake_ops, frame_ops, drained, written, sent,
                    received, warned, rumble >>

\* if let Some(controller) = active_controllers.get_mut(&0): None
no_controller ==
    /\ pc = "update"
    /\ 0 \notin active_controllers
    /\ pc' = "sleep"
    /\ UNCHANGED << codec_vars, delivered, controller, trigger_mode, normalise_sticks,
                    communication_mode, response, active_controllers,
                    handshake_ops, frame_ops, drained, written, sent,
                    received, warned, rumble >>

\* the twenty-byte packet whatever the dialect
packet_for_always_twenty(mode, c, trigger, normalise) ==
    controller_map_twenty_byte(c, trigger, normalise)

\* the packet send_event_to_controller builds for the session's dialect
packet_for(mode, c, trigger, normalise) ==
    IF mode = "SevenByte"
    THEN controller_map_seven_byte(c, trigger, normalise)
    ELSE controller_map_twenty_byte(c, trigger, normalise)

\* the None arm writing its packet like the other two
send_event_log_only_writing ==
    /\ pc = "update"
    /\ 0 \in active_controllers
    /\ communication_mode = "None"
    /\ sent' = controller_map_twenty_byte(controller, trigger_mode, normalise_sticks)
    /\ written' = sent'
    /\ frame_ops' = Append(frame_ops, "packet_write")
    /\ received' = << >>
    /\ pc' = "haptic"
    /\ UNCHANGED << codec_vars, delivered, controller, trigger_mode, normalise_sticks,
                    communication_mode, response, active_controllers,
                    handshake_ops, drained, warned, rumble >>

\* send_event_to_controller, ControllerEmulatorPacketType::None: the packet
\* is built for the log and the function returns the truncated buffer
send_event_log_only ==
    /\ pc = "update"
    /\ 0 \in active_controllers
    /\ communication_mode = "None"
    /\ sent' = packet_for(communication_mode, controller, trigger_mode,
                          normalise_sticks)
    /\ received' = << >>
    /\ pc' = "haptic"
    /\ UNCHANGED << codec_vars, delivered, controller, trigger_mode, normalise_sticks,
                    communication_mode, response, active_controllers,
                    handshake_ops, frame_ops, drained, written, warned,
                    rumble >>

\* an update posted for whichever controller is registered, not for #0 only
send_event_write_any_controller(ok) ==
    /\ pc = "update"
    /\ active_controllers # {}
    /\ communication_mode \in {"SevenByte", "TwentyByte"}
    /\ sent' = packet_for(communication_mode, controller, trigger_mode,
                          normalise_sticks)
    /\ written' = IF ok THEN sent' ELSE << >>
    /\ frame_ops' =
           Append(frame_ops, IF ok THEN "packet_write" ELSE "packet_write_error")
    /\ pc' = IF ok THEN "read" ELSE "failed"
    /\ UNCHANGED << codec_vars, delivered, controller, trigger_mode, normalise_sticks,
                    communication_mode, response, active_controllers,
                    handshake_ops, drained, received, warned, rumble >>

\* an update that writes only in iterations that drained an input event
send_event_write_on_input(ok) ==
    /\ pc = "update"
    /\ 0 \in active_controllers
    /\ communication_mode \in {"SevenByte", "TwentyByte"}
    /\ sent' = packet_for(communication_mode, controller, trigger_mode,
                          normalise_sticks)
    /\ written' = IF ok /\ drained > 0 THEN sent' ELSE << >>
    /\ frame_ops' =
           IF drained = 0 THEN frame_ops
           ELSE Append(frame_ops,
                       IF ok THEN "packet_write" ELSE "packet_write_error")
    /\ pc' = IF drained = 0 THEN "haptic" ELSE IF ok THEN "read" ELSE "failed"
    /\ UNCHANGED << codec_vars, delivered, controller, trigger_mode, normalise_sticks,
                    communication_mode, response, active_controllers,
                    handshake_ops, drained, received, warned, rumble >>

\* send_event_to_controller, SevenByte and TwentyByte: serial.write_all(&state)?
send_event_write(ok) ==
    /\ pc = "update"
    /\ 0 \in active_controllers
    /\ communication_mode \in {"SevenByte", "TwentyByte"}
    /\ sent' = packet_for(communication_mode, controller, trigger_mode,
                          normalise_sticks)
    /\ written' = IF ok THEN sent' ELSE << >>
    /\ frame_ops' =
           Append(frame_ops, IF ok THEN "packet_write" ELSE "packet_write_error")
    /\ pc' = IF ok THEN "read" ELSE "failed"
    /\ UNCHANGED << codec_vars, delivered, controller, trigger_mode, normalise_sticks,
                    communication_mode, response, active_controllers,
                    handshake_ops, drained, received, warned, rumble >>

\* the warning the SevenByte arm prints on the first byte of its buffer
adapter_warning(mode, buffer) ==
    mode = "SevenByte" /\ buffer[1] # SEVEN_BYTE_OK_RESPONSE

\* the update returning its whole four-byte buffer, received.truncate(..) left out
send_event_read_ok_untruncated(bytes) ==
    /\ pc = "read"
    /\ LET buffer == read_into(<< 0, 0, 0, 0 >>, bytes)
       IN  /\ warned' = adapter_warning(communication_mode, buffer)
           /\ received' = buffer
    /\ delivered' = bytes
    /\ frame_ops' = Append(frame_ops, "packet_read")
    /\ written' = << >>
    /\ pc' = "haptic"
    /\ UNCHANGED << codec_vars, controller, trigger_mode, normalise_sticks,
                    communication_mode, response, active_controllers,
                    handshake_ops, drained, sent, rumble >>

\* serial.read(&mut received) returned Ok(Len(bytes)); received.truncate(..)
send_event_read_ok(bytes) ==
    /\ pc = "read"
    /\ LET buffer == read_into(<< 0, 0, 0, 0 >>, bytes)
       IN  /\ warned' = adapter_warning(communication_mode, buffer)
           /\ received' = truncate(buffer, Len(bytes))
    /\ delivered' = bytes
    /\ frame_ops' = Append(frame_ops, "packet_read")
    /\ written' = << >>
    /\ pc' = "haptic"
    /\ UNCHANGED << codec_vars, controller, trigger_mode, normalise_sticks,
                    communication_mode, response, active_controllers,
                    handshake_ops, drained, sent, rumble >>

\* serial.read(&mut received) returned Err: bytes_received is 0
send_event_read_failed ==
    /\ pc = "read"
    /\ LET buffer == << 0, 0, 0, 0 >>
       IN  /\ warned' = adapter_warning(communication_mode, buffer)
           /\ received' = truncate(buffer, 0)
    /\ delivered' = << >>
    /\ frame_ops' = Append(frame_ops, "packet_read_error")
    /\ written' = << >>
    /\ pc' = "haptic"
    /\ UNCHANGED << codec_vars, controller, trigger_mode, normalise_sticks,
                    communication_mode, response, active_controllers,
                    handshake_ops, drained, sent, rumble >>

\* if !response.is_empty(): nothing came back
no_feedback ==
    /\ pc = "haptic"
    /\ received = << >>
    /\ pc' = "sleep"
    /\ UNCHANGED << codec_vars, delivered, controller, trigger_mode, normalise_sticks,
                    communication_mode, response, active_controllers,
                    handshake_ops, frame_ops, drained, written, sent,
                    received, warned, rumble >>

\* response[1] and response[2] are indexed without a length check: a
\* response of one or two bytes panics
short_feedback ==
    /\ pc = "haptic"
    /\ received # << >>
    /\ Len(received) < 3
    /\ pc' = "panicked"
    /\ UNCHANGED << codec_vars, delivered, controller, trigger_mode, normalise_sticks,
                    communication_mode, response, active_controllers,
                    handshake_ops, frame_ops, drained, written, sent,
                    received, warned, rumble >>

\* ControllerManager::set_rumble, as the specification describes its effect
\* on the haptic device: zero combined intensity stops the rumble, anything
\* else plays it for the duration
ControllerManager_set_rumble(low_frequency, high_frequency, duration) ==
    IF low_frequency = 0 /\ high_frequency = 0
    THEN [kind |-> "stop", duration_ms |-> 0]
    ELSE [kind |-> "rumble", duration_ms |-> duration]

\* the call with the intensities taken one byte too early: from response[0]
\* and response[1]
rumble_call_from_first_byte(bytes, result) ==
    LET small_motor_intensity == motor_intensity(bytes[1])
        large_motor_intensity == motor_intensity(bytes[2])
    IN  [low_frequency_rumble |-> small_motor_intensity,
         high_frequency_rumble |-> large_motor_intensity,
         duration_ms |-> 500,
         ok |-> result,
         effect |-> ControllerManager_set_rumble(small_motor_intensity,
                                                 large_motor_intensity, 500)]

\* the arguments of controller.set_rumble(small, large, 500), in the order
\* of the trait's parameters (low_frequency, high_frequency, duration_ms),
\* and what the call does to the haptic device
rumble_call(bytes, result) ==
    LET small_motor_intensity == motor_intensity(bytes[2])
        large_motor_intensity == motor_intensity(bytes[3])
    IN  [low_frequency_rumble |-> small_motor_intensity,
         high_frequency_rumble |-> large_motor_intensity,
         duration_ms |-> 500,
         ok |-> result,
         effect |-> ControllerManager_set_rumble(small_motor_intensity,
                                                 large_motor_intensity, 500)]

\* controller.set_rumble(..)? : an error of the call ends the session
set_rumble_propagating(result) ==
    /\ pc = "haptic"
    /\ Len(received) >= 3
    /\ rumble' = Append(rumble, rumble_call(received, result))
    /\ pc' = IF result THEN "sleep" ELSE "failed"
    /\ UNCHANGED << codec_vars, delivered, controller, trigger_mode, normalise_sticks,
                    communication_mode, response, active_controllers,
                    handshake_ops, frame_ops, drained, written, sent,
                    received, warned >>

\* controller.set_rumble(..), whose result is dropped
set_rumble(result) ==
    /\ pc = "haptic"
    /\ Len(received) >= 3
    /\ rumble' = Append(rumble, rumble_call(received, result))
    /\ pc' = "sleep"
    /\ UNCHANGED << codec_vars, delivered, controller, trigger_mode, normalise_sticks,
                    communication_mode, response, active_controllers,
                    handshake_ops, frame_ops, drained, written, sent,
                    received, warned >>

\* clock.sleep_remaining_via(..): the iteration ends and its locals go
sleep ==
    /\ pc = "sleep"
    /\ pc' = "events"
    /\ frame_ops' = << >>
    /\ drained' = 0
    /\ sent' = << >>
    /\ received' = << >>
    /\ warned' = FALSE
    /\ rumble' = << >>
    /\ delivered' = << >>
    /\ UNCHANGED << codec_vars, controller, trigger_mode, normalise_sticks,
                    communication_mode, response, active_controllers,
                    handshake_ops, written >>

Next ==
    \/ clear_read_ok
    \/ clear_read_timed_out
    \/ clear_read_failed
    \/ \E ok \in BOOLEAN : write_probe(ok)
    \/ \E bytes \in Responses : handshake_read_ok(bytes)
    \/ handshake_read_failed
    \/ \E id \in InstanceIds, opened \in BOOLEAN : controller_device_added(id, opened)
    \/ \E id \in InstanceIds : controller_device_removed(id)
    \/ \E snapshot \in SessionSnapshots : controller_input(snapshot)
    \/ quit
    \/ events_drained
    \/ no_controller
    \/ send_event_log_only
    \/ \E ok \in BOOLEAN : send_event_write(ok)
    \/ \E bytes \in Responses : send_event_read_ok(bytes)
    \/ send_event_read_failed
    \/ no_feedback
    \/ short_feedback
    \/ \E result \in BOOLEAN : set_rumble(result)
    \/ sleep

Spec == Init /\ [][Next]_vars

----------------------------------------------------------------------------
(* Properties of the session (checked under Spec) *)

\* number of entries of a log that are of the given kinds
Count(ops, kinds) == Cardinality({i \in 1..Len(ops) : ops[i] \in kinds})

\* the handshake read returned Ok
HandshakeAnswered == Count(handshake_ops, {"handshake_read"}) > 0

\* both clear_serial_buffer calls have returned: the frame loop runs
HandshakeDone == Count(handshake_ops, {"clear_timeout"}) = 2

\* C1: once the probe is written and a response is read, the mode is
\* TwentyByte (Extended) when the first byte of the response buffer is 0x5A,
\* SevenByte (Minimal) when it is 'x' (0x78), and None (Undetermined) for
\* every other first byte, 'k' (0x6B) included.
C1_HandshakeClassification ==
    HandshakeAnswered =>
        /\ response[1] = 90 => communication_mode = "TwentyByte"
        /\ response[1] = 120 => communication_mode = "SevenByte"
        /\ response[1] \notin {90, 120} => communication_mode = "None"

\* a device that answered the probe with 'k' left the session in log-only mode
C1_Witness ==
    /\ HandshakeAnswered
    /\ response[1] = 107
    /\ communication_mode = "None"
    /\ pc = "clear2"

\* C2: after the handshake read no step changes the CommunicationMode, and a
\* step that changes the controller registry changes nothing of the session
\* but the registry (with the state of the controller it holds) and the
\* count of drained events.
C2_ModeFixedAfterHandshake ==
    [][ /\ pc # "handshake_read" => communication_mode' = communication_mode
        /\ active_controllers' # active_controllers =>
               UNCHANGED << communication_mode, response, trigger_mode,
                            normalise_sticks, pc, handshake_ops, frame_ops,
                            written, sent, received, warned, rumble >>
      ]_vars

\* a Minimal session that lost controller #0, got another one, and goes on
C2_Witness ==
    /\ communication_mode = "SevenByte"
    /\ active_controllers = {1}
    /\ pc = "sleep"

\* C3: in log-only mode (the handshake left the mode at None) no iteration
\* of the frame loop writes to or reads from the transport; the update
\* returns an empty response, no rumble command is issued, and the session
\* neither fails nor panics.
C3_LogOnlyNeverTransmits ==
    (HandshakeDone /\ communication_mode = "None") =>
        /\ frame_ops = << >>
        /\ written = << >>
        /\ received = << >>
        /\ rumble = << >>
        /\ pc \in {"events", "update", "haptic", "sleep", "done"}

\* a log-only update that has built its packet and finished the iteration
C3_Witness ==
    /\ HandshakeDone
    /\ communication_mode = "None"
    /\ response[1] = 107
    /\ pc = "sleep"
    /\ Len(sent) = 20

\* the handshake stage an operation falls in: the number of operations
\* before it that end a stage
Stage(ops, i) ==
    Count(SubSeq(ops, 1, i - 1),
          {"clear_timeout", "probe_write", "handshake_read",
           "handshake_read_error"})

\* the operations a handshake stage consists of
StageOps(stage) ==
    CASE stage = 0 -> {"clear_read", "clear_timeout", "clear_error"}
      [] stage = 1 -> {"probe_write", "probe_write_error"}
      [] stage = 2 -> {"handshake_read", "handshake_read_error"}
      [] stage = 3 -> {"clear_read", "clear_timeout", "clear_error"}
      [] OTHER -> {}

\* C4: the transport operations before the first frame come in the order
\* drain until timeout, write the twenty-byte probe, one read into the
\* four-byte buffer, drain until timeout; the probe is written at most once,
\* exactly once when the frame loop runs, and no operation of the frame loop
\* happens before the second drain has timed out.
C4_HandshakeOrdering ==
    /\ \A i \in 1..Len(handshake_ops) :
           /\ handshake_ops[i] \in StageOps(Stage(handshake_ops, i))
           /\ handshake_ops[i] \in {"clear_error", "probe_write_error"} =>
                  i = Len(handshake_ops)
    /\ Count(handshake_ops, {"probe_write"}) <= 1
    /\ Len(response) = 4
    /\ pc = "handshake_read" => written = ProbePacket
    /\ (pc \in {"events", "update", "read", "haptic", "sleep", "done"}
        \/ frame_ops # << >>) =>
           /\ Stage(handshake_ops, Len(handshake_ops) + 1) = 4
           /\ Count(handshake_ops, {"probe_write"}) = 1

\* the first packet of a session is on the wire after a handshake that had
\* a stale byte to drain
C4_Witness ==
    /\ pc = "read"
    /\ frame_ops = << "packet_write" >>
    /\ handshake_ops = << "clear_read", "clear_timeout", "probe_write",
                          "handshake_read", "clear_timeout" >>

\* C5: a steady-state update writes one whole packet of the session's
\* dialect: in SevenByte mode the bytes on the wire are the seven-byte
\* builder output for the current snapshot, trigger mode and normalisation
\* flag, in TwentyByte mode the twenty-byte builder output; an iteration
\* writes at most once and a built packet is 7 or 20 bytes long.
C5_WholePacketPerUpdate ==
    /\ Count(frame_ops, {"packet_write", "packet_write_error"}) <= 1
    /\ sent # << >> => Len(sent) \in {7, 20}
    /\ pc = "read" =>
           /\ frame_ops = << "packet_write" >>
           /\ written = sent
           /\ communication_mode = "SevenByte" =>
                  /\ Len(written) = 7
                  /\ written = controller_map_seven_byte(
                                   controller, trigger_mode, normalise_sticks)
           /\ communication_mode = "TwentyByte" =>
                  /\ Len(written) = 20
                  /\ written = controller_map_twenty_byte(
                                   controller, trigger_mode, normalise_sticks)

\* a Minimal session has the seven bytes of the test scenario on the wire
C5_Witness ==
    /\ pc = "read"
    /\ communication_mode = "SevenByte"
    /\ controller = ScenarioController
    /\ trigger_mode = "normal"
    /\ normalise_sticks
    /\ written = << 90, 127, 190, 24, 198, 129, 110 >>

----------------------------------------------------------------------------
(* Properties of the packet builder (checked under SpecBuilder) *)

\* the packet in `sent` was just built from `controller` with `trigger_mode`
\* and `normalise_sticks`
Mapped == pc \in {"seven", "twenty"}

\* C6: for every snapshot, trigger mode and normalisation flag the
\* seven-byte builder output is seven bytes long and equals the first seven
\* bytes of the twenty-byte builder output for the same inputs, which is
\* twenty bytes long; byte 0 of both is 0x5A.
C6_SevenIsPrefixOfTwenty ==
    LET twenty == controller_map_twenty_byte(controller, trigger_mode,
                                             normalise_sticks)
    IN  /\ pc = "twenty" => (Len(sent) = 20 /\ sent[1] = 90)
        /\ pc = "seven" =>
               /\ Len(sent) = 7
               /\ Len(twenty) = 20
               /\ \A i \in 1..7 : sent[i] = twenty[i]
               /\ sent[1] = 90

\* the seven-byte packet of the test scenario in right-stick mode
C6_Witness ==
    /\ pc = "seven"
    /\ controller = ScenarioController
    /\ trigger_mode = "right-stick"
    /\ normalise_sticks
    /\ sent = << 90, 127, 189, 24, 255, 129, 110 >>

\* C7: for a controller with every button released and every axis at 0 the
\* twenty-byte builder output is 5A FF FF 80 80 80 80, twelve 00 and 55, in
\* each trigger mode and with normalisation on or off, and that is the
\* packet the handshake writes as its probe.
C7_NeutralPacketIsProbe ==
    (pc = "twenty" /\ controller = NeutralController) =>
        /\ sent = << 90, 255, 255, 128, 128, 128, 128,
                     0, 0, 0, 0, 0, 0, 0, 0, 0, 0, 0, 0, 85 >>
        /\ sent = ProbePacket

\* the neutral controller mapped in right-stick mode without normalisation
C7_Witness ==
    /\ pc = "twenty"
    /\ controller = NeutralController
    /\ trigger_mode = "right-stick"
    /\ ~normalise_sticks
    /\ sent = ProbePacket

\* bit i (0 = least significant) of a byte
Bit(b, i) == (b \div (2 ^ i)) % 2

\* bit `bit` of packet byte `byte` (Rust index) is 0 exactly when `pressed`
WireBit(byte, bit, pressed) == (Bit(sent[byte + 1], bit) = 0) <=> pressed

\* C8: in packet byte 1, bits 7..0 stand for Left, Down, Right, Up, Start,
\* R3, L3, Select and in packet byte 2, bits 7..0 stand for Square, Cross,
\* Circle, Triangle, R1, L1, R2, L2; a bit is 0 exactly when the value of
\* its input is above the i16 midpoint 0 (pressed) and 1 otherwise.
C8_ButtonBytesInvertedMsbFirst ==
    Mapped =>
        LET v == controller_values(controller, trigger_mode, normalise_sticks)
        IN  /\ WireBit(1, 7, controller.button["DPadLeft"])
            /\ WireBit(1, 6, controller.button["DPadDown"])
            /\ WireBit(1, 5, controller.button["DPadRight"])
            /\ WireBit(1, 4, controller.button["DPadUp"])
            /\ WireBit(1, 3, controller.button["Start"])
            /\ WireBit(1, 2, controller.button["RightStick"])
            /\ WireBit(1, 1, controller.button["LeftStick"])
            /\ WireBit(1, 0, controller.button["Back"])
            /\ WireBit(2, 7, v.square_value > 0)
            /\ WireBit(2, 6, v.cross_value > 0)
            /\ WireBit(2, 5, controller.button["B"])
            /\ WireBit(2, 4, controller.button["Y"])
            /\ WireBit(2, 3, controller.button["RightShoulder"])
            /\ WireBit(2, 2, controller.button["LeftShoulder"])
            /\ WireBit(2, 1, v.r2_button_value > 0)
            /\ WireBit(2, 0, v.l2_button_value > 0)

\* Down held and the right trigger just past its midpoint: bit 6 of byte 1
\* and bit 1 of byte 2 are the only zeros
C8_Witness ==
    /\ pc = "twenty"
    /\ trigger_mode = "normal"
    /\ controller.button["DPadDown"]
    /\ controller.axis["TriggerRight"] = 16385
    /\ sent[2] = 191
    /\ sent[3] = 253

\* the field whose pressure byte is packet byte `byte` and whose digital bit
\* is bit `bit` of packet byte 2 is fed by the i16 value `value`
FedBy(byte, bit, value) ==
    /\ sent[byte + 1] = convert_for_dualshock(value)
    /\ WireBit(2, bit, value > 0)

\* the i16 value of a digital button
Digital(button) == IF controller.button[button] THEN 32767 ELSE -32768

\* the right-stick Y byte encodes `value`, normalised when the flag is set
RightStickYIs(value) ==
    sent[5] = convert_for_dualshock(
                  IF normalise_sticks THEN normalise_coordinate(value)
                  ELSE value)

\* C9: in normal mode L2, R2, Cross and Square are fed by
\* half_axis_positive(left trigger), half_axis_positive(right trigger),
\* digital A and digital X; in cross-and-square mode by digital A, digital X,
\* half_axis_positive(right trigger) and half_axis_positive(left trigger);
\* in both the right-stick Y field is the raw right-stick Y axis; the one
\* selected value gives both the digital bit and the pressure byte.
C9_NormalAndCrossSquareSources ==
    LET left == convert_half_axis_positive(I16, controller.axis["TriggerLeft"])
        right == convert_half_axis_positive(I16, controller.axis["TriggerRight"])
    IN  /\ (pc = "twenty" /\ trigger_mode = "normal") =>
               /\ FedBy(17, 0, left)
               /\ FedBy(18, 1, right)
               /\ FedBy(13, 6, Digital("A"))
               /\ FedBy(14, 7, Digital("X"))
               /\ RightStickYIs(controller.axis["RightY"])
        /\ (pc = "twenty" /\ trigger_mode = "cross-and-square") =>
               /\ FedBy(17, 0, Digital("A"))
               /\ FedBy(18, 1, Digital("X"))
               /\ FedBy(13, 6, right)
               /\ FedBy(14, 7, left)
               /\ RightStickYIs(controller.axis["RightY"])

\* cross-and-square with A held and the left trigger fully pulled: Square
\* and L2 are pressed at full pressure, Cross and R2 are not
C9_Witness ==
    /\ pc = "twenty"
    /\ trigger_mode = "cross-and-square"
    /\ controller.button["A"]
    /\ controller.axis["TriggerLeft"] = 32767
    /\ controller.axis["TriggerRight"] = 0
    /\ ~controller.button["X"]
    /\ sent[3] = 126
    /\ sent[15] = 255
    /\ sent[18] = 255
    /\ sent[14] = 0
    /\ sent[19] = 0

\* C10: in right-stick mode L2 is fed by half_axis_negative(raw right-stick
\* Y), R2 by half_axis_positive(raw right-stick Y), Cross by digital A and
\* Square by digital X, and the right-stick Y field is left trigger minus
\* right trigger, normalised when the flag is set, then scaled.
C10_RightStickSources ==
    (pc = "twenty" /\ trigger_mode = "right-stick") =>
        /\ FedBy(17, 0, convert_half_axis_negative(I16, controller.axis["RightY"]))
        /\ FedBy(18, 1, convert_half_axis_positive(I16, controller.axis["RightY"]))
        /\ FedBy(13, 6, Digital("A"))
        /\ FedBy(14, 7, Digital("X"))
        /\ RightStickYIs(controller.axis["TriggerLeft"]
                         - controller.axis["TriggerRight"])

\* right-stick mode with the stick pushed past the negative midpoint and the
\* right trigger pulled: L2 is pressed and the Y field goes below centre
C10_Witness ==
    /\ pc = "twenty"
    /\ trigger_mode = "right-stick"
    /\ controller.axis["RightY"] = -16386
    /\ controller.axis["TriggerRight"] = 16385
    /\ controller.axis["TriggerLeft"] = 0
    /\ Bit(sent[3], 0) = 0
    /\ Bit(sent[3], 1) = 1
    /\ sent[5] < 128


----------------------------------------------------------------------------
(* Properties of the value codec *)

\* the function under test has returned
Called(function) == pc = function /\ Len(returned) = 1

\* C11: convert_analog_to_button(v) is true exactly when v is strictly
\* greater than the midpoint (max + min) / 2 of its type, the division
\* truncating: 127 for u8, 0 for i16.  convert_button_to_analog(true) is the
\* maximum of the type and convert_button_to_analog(false) its minimum, so
\* converting a button to an analog value and back gives the button again.
C11_AnalogButtonRoundTrip ==
    /\ Called("convert_analog_to_button") =>
          LET T == argument[1]
              v == argument[2]
              midpoint == IF T = U8 THEN 127 ELSE 0
          IN  /\ TruncDiv(T.max + T.min, 2) = midpoint
              /\ returned[1] = (v > midpoint)
    /\ Called("convert_button_to_analog") =>
          LET T == argument[1]
              b == argument[2]
          IN  /\ returned[1] = (IF b THEN T.max ELSE T.min)
              /\ convert_analog_to_button(T, returned[1]) = b

\* the i16 value 0 is released although it is above (max + min) / 2 = -0.5
C11_Witness ==
    /\ Called("convert_analog_to_button")
    /\ argument = << I16, 0 >>
    /\ returned = << FALSE >>

\* v is a value of type T
Fits(T, v) == T.min <= v /\ v <= T.max

\* C12: for every i16 axis value a, convert_half_axis_positive(a) is
\* i16::MAX when a = i16::MAX, i16::MIN when a <= 0, and exactly
\* 2 * (a - 16384) when 1 <= a <= 32766, neither addition saturating in that
\* range; convert_half_axis_positive(16384) = 0, and the function never
\* decreases from one axis value to the next.
C12_HalfAxisPositive ==
    Called("convert_half_axis_positive") =>
        LET a == argument[2]
            r == returned[1]
        IN  /\ a = I16.max => r = I16.max
            /\ a <= 0 => r = I16.min
            /\ (1 <= a /\ a <= 32766) =>
                  /\ r = 2 * (a - 16384)
                  /\ Fits(I16, a - 16384)
                  /\ Fits(I16, 2 * (a - 16384))
            /\ a = 16384 => r = 0
            /\ a < I16.max => r <= convert_half_axis_positive(I16, a + 1)

\* the top of the range: the largest doubled value, one step below the
\* special case
C12_Witness ==
    /\ Called("convert_half_axis_positive")
    /\ argument = << I16, 32766 >>
    /\ returned = << 32764 >>

\* C13: for every i16 axis value a, convert_half_axis_negative(a) equals
\* convert_half_axis_positive(-(a saturating+ 1)); the negation never
\* overflows because a saturating+ 1 is never i16::MIN.  The function maps
\* i16::MAX to i16::MIN, 0 to i16::MIN, -16385 to 0 and i16::MIN to i16::MAX.
C13_HalfAxisNegative ==
    Called("convert_half_axis_negative") =>
        LET a == argument[2]
            r == returned[1]
            shifted == IF a + 1 > I16.max THEN I16.max ELSE a + 1
        IN  /\ shifted # I16.min
            /\ Fits(I16, -shifted)
            /\ r = convert_half_axis_positive(I16, -shifted)
            /\ a = I16.max => r = I16.min
            /\ a = 0 => r = I16.min
            /\ a = -16385 => r = 0
            /\ a = I16.min => r = I16.max

\* the stick fully up: the one argument whose plain negation would overflow
C13_Witness ==
    /\ Called("convert_half_axis_negative")
    /\ argument = << I16, -32768 >>
    /\ returned = << 32767 >>

\* C14: for every i16 axis value a, convert_for_dualshock(a) equals
\* floor(a / 256) + 128 (an arithmetic shift right by 8, then + 0x80), lies in
\* 0..255 with no intermediate value outside the i16 range, is below 0x80
\* exactly when a < 0, is 0x80 for 0, 0x00 for i16::MIN and 0xFF for
\* i16::MAX, and never decreases from one axis value to the next.
C14_ScaleForWire ==
    Called("convert_for_dualshock") =>
        LET a == argument[2]
            r == returned[1]
            shifted == (a - (a % 256)) \div 256
        IN  /\ r = shifted + 128
            /\ Fits(U8, r)
            /\ Fits(I16, shifted)
            /\ Fits(I16, shifted + 128)
            /\ (r < 128) <=> (a < 0)
            /\ a = 0 => r = 128
            /\ a = I16.min => r = 0
            /\ a = I16.max => r = 255
            /\ a < I16.max => r <= convert_for_dualshock(a + 1)

\* the smallest deflection below the centre already encodes below 0x80
C14_Witness ==
    /\ Called("convert_for_dualshock")
    /\ argument = << I16, -1 >>
    /\ returned = << 127 >>

----------------------------------------------------------------------------
(* Properties of the packet builder: sticks, pressure bytes, footer *)

\* the four stick coordinates in packet order, after the trigger mode has
\* chosen the source of the right-stick Y field
StickCoordinates ==
    << controller.axis["RightX"],
       IF trigger_mode = "right-stick"
       THEN controller.axis["TriggerLeft"] - controller.axis["TriggerRight"]
       ELSE controller.axis["RightY"],
       controller.axis["LeftX"],
       controller.axis["LeftY"] >>

\* c + trunc(c / 10), kept inside the i16 range
Shrunk(c) ==
    LET tenth == IF c >= 0 THEN c \div 10 ELSE -((-c) \div 10)
        sum == c + tenth
    IN  IF sum > 32767 THEN 32767 ELSE IF sum < -32768 THEN -32768 ELSE sum

\* floor(v / 256) + 128
OnWire(v) == ((v - (v % 256)) \div 256) + 128

\* C15: when the normalisation flag is set, each of the four stick
\* coordinates c that is encoded becomes c + trunc(c / 10) clamped to the i16
\* range (never wrapped), each on its own; when the flag is clear the
\* coordinates are encoded unchanged.  Right stick (-24000, 16500) and left
\* stick (255, -4096) with normalisation on encode to 18 C6 81 6E.
C15_StickNormalisation ==
    Mapped =>
        /\ \A i \in 1..4 :
              sent[3 + i] = OnWire(IF normalise_sticks
                                   THEN Shrunk(StickCoordinates[i])
                                   ELSE StickCoordinates[i])
        /\ ( /\ normalise_sticks
             /\ trigger_mode # "right-stick"
             /\ controller.axis["RightX"] = -24000
             /\ controller.axis["RightY"] = 16500
             /\ controller.axis["LeftX"] = 255
             /\ controller.axis["LeftY"] = -4096 ) =>
                SubSeq(sent, 4, 7) = << 24, 198, 129, 110 >>

\* two coordinates at the ends of the range, normalised: both saturate, and
\* the two coordinates left at rest stay at the centre
C15_Witness ==
    /\ pc = "twenty"
    /\ normalise_sticks
    /\ trigger_mode = "normal"
    /\ controller.axis["LeftX"] = 32767
    /\ controller.axis["RightY"] = -32768
    /\ SubSeq(sent, 4, 7) = << 128, 0, 255, 128 >>

\* the upper half of an axis stretched over the whole i16 range
HalfPositive(a) ==
    IF a = 32767 THEN 32767
    ELSE IF a <= 0 THEN -32768
    ELSE 2 * (a - 16384)

\* the lower half of an axis stretched over the whole i16 range
HalfNegative(a) == HalfPositive(-(IF a = 32767 THEN 32767 ELSE a + 1))

\* the pressure byte of a field fed by a digital button
DigitalByte(button) == IF controller.button[button] THEN 255 ELSE 0

\* the pressure bytes of L2, R2, Cross and Square in the current trigger mode
TriggerModeBytes ==
    LET left == OnWire(HalfPositive(controller.axis["TriggerLeft"]))
        right == OnWire(HalfPositive(controller.axis["TriggerRight"]))
    IN  CASE trigger_mode = "right-stick" ->
               [l2 |-> OnWire(HalfNegative(controller.axis["RightY"])),
                r2 |-> OnWire(HalfPositive(controller.axis["RightY"])),
                cross |-> DigitalByte("A"), square |-> DigitalByte("X")]
          [] trigger_mode = "cross-and-square" ->
               [l2 |-> DigitalByte("A"), r2 |-> DigitalByte("X"),
                cross |-> right, square |-> left]
          [] OTHER ->
               [l2 |-> left, r2 |-> right,
                cross |-> DigitalByte("A"), square |-> DigitalByte("X")]

\* packet bytes 7..18 as the inputs determine them, in packet order
PressureBytes ==
    << DigitalByte("DPadRight"), DigitalByte("DPadLeft"),
       DigitalByte("DPadUp"), DigitalByte("DPadDown"),
       DigitalByte("Y"), DigitalByte("B"),
       TriggerModeBytes.cross, TriggerModeBytes.square,
       DigitalByte("LeftShoulder"), DigitalByte("RightShoulder"),
       TriggerModeBytes.l2, TriggerModeBytes.r2 >>

\* C16: bytes 7..18 of the twenty-byte packet are, in this order, the wire
\* encodings of the analog values of right, left, up, down, triangle,
\* circle, cross, square, L1, R1, L2, R2, after the trigger mode has chosen
\* their sources; a field fed by a digital button is 0xFF when the button is
\* held and 0x00 when it is released.
C16_PressureBytes ==
    pc = "twenty" =>
        /\ Len(sent) = 20
        /\ SubSeq(sent, 8, 19) = PressureBytes

\* D-pad right and R1 held: bytes 7 and 16 are at full pressure, their
\* neighbours left (8) and L1 (15) are not
C16_Witness ==
    /\ pc = "twenty"
    /\ controller.button["DPadRight"]
    /\ controller.button["RightShoulder"]
    /\ sent[8] = 255
    /\ sent[9] = 0
    /\ sent[16] = 0
    /\ sent[17] = 255

\* C17: byte 19 of every twenty-byte packet is 0xAA exactly when the Guide
\* button is held in the snapshot and 0x55 otherwise, whatever the trigger
\* mode, the normalisation flag and the other inputs are.
C17_ModeFooter ==
    pc = "twenty" =>
        /\ Len(sent) = 20
        /\ sent[20] \in {170, 85}
        /\ sent[20] = 170 <=> controller.button["Guide"]

\* Guide held together with another button, in a trigger mode other than the
\* default and with normalisation off
C17_Witness ==
    /\ pc = "twenty"
    /\ trigger_mode = "right-stick"
    /\ ~normalise_sticks
    /\ controller.button["Guide"]
    /\ controller.button["A"]
    /\ sent[20] = 170

----------------------------------------------------------------------------
(* Properties of the haptic relay (checked under Spec) *)

\* the current update has read the transport after writing its packet
UpdateAnswered == Count(frame_ops, {"packet_read", "packet_read_error"}) > 0

\* C18: a rumble command is issued to the controller only when the
\* communication mode is TwentyByte (Extended); in SevenByte (Minimal) and
\* None (Undetermined) mode no rumble command is ever issued, whatever bytes
\* the transport returns.
C18_RumbleOnlyInExtended ==
    rumble # << >> => communication_mode = "TwentyByte"

\* C19: in steady state, for every mode and every number of response bytes
\* received after a transmitted packet (0, 1, 2, 3 or 4), the update
\* completes without failing and the loop goes on to the next frame.
C19_PartialResponsesHandled ==
    UpdateAnswered => pc \in {"haptic", "sleep"}

\* C20: in every rumble command issued from a response the low-frequency
\* (large motor) argument comes from response byte 2, the high-frequency
\* (small motor) argument from response byte 1, and the duration is 500 ms.
C20_RumbleMotorMapping ==
    \A i \in 1..Len(rumble) :
        /\ rumble[i].low_frequency_rumble = received[3] * 257
        /\ rumble[i].high_frequency_rumble = received[2] * 257
        /\ rumble[i].duration_ms = 500

----------------------------------------------------------------------------
(* Properties of error handling and of the frame loop (checked under Spec) *)

\* C21: when the write of the packet or the read of the response fails with
\* an I/O error during a steady-state update, the session is not aborted and
\* the loop continues with the next frame.
C21_SteadyStateErrorsNonFatal ==
    Count(frame_ops, {"packet_write_error", "packet_read_error"}) > 0 =>
        pc \in {"haptic", "sleep"}

\* C22: after each packet sent in SevenByte (Minimal) mode an adapter
\* failure is reported when byte 0 of the received response differs from
\* 'k'; a read that times out or returns zero bytes is no feedback for this
\* frame and is not reported as an adapter failure; the session is aborted
\* in neither case.
C22_MinimalAcknowledgement ==
    (communication_mode = "SevenByte" /\ UpdateAnswered) =>
        /\ warned <=> (received # << >> /\ received[1] # 107)
        /\ pc \in {"haptic", "sleep"}

\* clear_serial_buffer is running
Clearing == pc \in {"clear1", "clear2"}

\* C23: buffer clearing reads until the transport reports an error: every
\* successful read leads to another read, the first timed-out read ends
\* clearing normally, and the first read error of any other kind aborts the
\* session before any further transport operation; so clearing ends only
\* when the transport returns an error.
C23_BufferClearing ==
    [][ /\ pc # "panicked"
        /\ Clearing =>
              LET op == handshake_ops'[Len(handshake_ops')]
              IN  /\ Len(handshake_ops') = Len(handshake_ops) + 1
                  /\ op \in {"clear_read", "clear_timeout", "clear_error"}
                  /\ op = "clear_read" => pc' = pc
                  /\ op = "clear_timeout" =>
                        pc' = (IF pc = "clear1" THEN "probe" ELSE "events")
                  /\ op = "clear_error" => pc' = "panicked" ]_vars

\* stale bytes were read, then a read failed with an error other than a
\* timeout: the session is over
C23_Witness ==
    /\ handshake_ops = << "clear_read", "clear_error" >>
    /\ pc = "panicked"

\* the transport operations one update may have logged so far
UpdateLogs ==
    { << >>, << "packet_write_error" >>, << "packet_write" >>,
      << "packet_write", "packet_read" >>,
      << "packet_write", "packet_read_error" >> }

\* C24: each loop iteration first drains the buffered input events, then
\* performs at most one protocol update (one packet write, then one read,
\* then at most one rumble command), then sleeps; no transport write happens
\* while events of the iteration are being drained, and the packet is built
\* from the controller state as it is after the drain.
C24_FrameOrdering ==
    /\ frame_ops \in UpdateLogs
    /\ Len(rumble) <= 1
    /\ rumble # << >> => Len(frame_ops) = 2
    /\ pc = "events" => (frame_ops = << >> /\ rumble = << >> /\ sent = << >>)
    /\ frame_ops # << >> =>
          sent = packet_for(communication_mode, controller, trigger_mode,
                            normalise_sticks)
    /\ (drained > 0 \/ frame_ops # << >>) => HandshakeDone

\* an iteration that drained an input event, sent the packet of the new
\* controller state, read the answer, relayed it and is about to sleep
C24_Witness ==
    /\ pc = "sleep"
    /\ drained >= 1
    /\ controller = ScenarioController
    /\ frame_ops = << "packet_write", "packet_read" >>
    /\ Len(rumble) = 1
    /\ Len(sent) = 20
    /\ sent[2] = 127

\* C25: the frame loop exits successfully only when a quit event is drained,
\* in that same iteration; from then on no packet is written, no response is
\* read and no rumble command is issued; the quit is taken between
\* operations, never during a write or read in flight.
C25_Quit ==
    [][ /\ pc # "done"
        /\ pc' = "done" =>
              /\ pc = "events"
              /\ drained' = drained + 1
              /\ written = << >>
              /\ frame_ops' = << >>
              /\ sent' = << >>
              /\ received' = << >>
              /\ rumble' = << >> ]_vars

\* an Extended session that drained an event and then the quit event in one
\* iteration
C25_Witness ==
    /\ pc = "done"
    /\ drained = 2
    /\ communication_mode = "TwentyByte"
    /\ 0 \in active_controllers
    /\ frame_ops = << >>

\* C26: in TwentyByte (Extended) mode, while controller #0 is registered and
\* no quit event or fatal error has occurred, every loop iteration writes one
\* twenty-byte packet to the transport, also when no controller input changed
\* since the previous iteration.
C26_PeriodicRefresh ==
    ( /\ communication_mode = "TwentyByte"
      /\ 0 \in active_controllers
      /\ pc \in {"read", "haptic", "sleep"} ) =>
        /\ frame_ops # << >>
        /\ frame_ops[1] = "packet_write"
        /\ Len(sent) = 20

\* an iteration without a single event: the packet of the controller at rest
\* went out all the same
C26_Witness ==
    /\ pc = "sleep"
    /\ communication_mode = "TwentyByte"
    /\ drained = 0
    /\ controller = NeutralController
    /\ frame_ops = << "packet_write", "packet_read" >>
    /\ Len(sent) = 20

\* the handshake read brought no data: it failed, or it left the zeroed
\* response buffer as it was
HandshakeWithoutData ==
    \/ Count(handshake_ops, {"handshake_read_error"}) > 0
    \/ HandshakeAnswered /\ response = << 0, 0, 0, 0 >>

\* C27: a handshake read that returns zero bytes, or that fails with a
\* timeout or another read error, never resolves the session to TwentyByte
\* or SevenByte: the mode stays None and the session goes on in log-only
\* mode instead of aborting.
C27_HandshakeWithoutData ==
    HandshakeWithoutData =>
        /\ communication_mode = "None"
        /\ frame_ops = << >>
        /\ pc # "failed"
        /\ pc = "panicked" =>
              handshake_ops[Len(handshake_ops)] = "clear_error"

\* the handshake read returned without data, the buffer was cleared again
\* and the first update of the frame loop built its packet for the log only
C27_Witness ==
    /\ handshake_ops = << "clear_timeout", "probe_write", "handshake_read",
                          "clear_timeout" >>
    /\ response = << 0, 0, 0, 0 >>
    /\ communication_mode = "None"
    /\ pc = "haptic"
    /\ Len(sent) = 20
    /\ received = << >>

\* C28: the response one steady-state update returns is exactly the bytes
\* read from the transport during that update, in order and as many as were
\* read (0 to 4); it is empty on a read error and in log-only mode, and it
\* holds no byte of an earlier frame's response.
C28_ResponseIsWhatWasRead ==
    /\ received = delivered
    /\ Len(received) <= 4
    /\ pc \in {"events", "update", "read"} => received = << >>
    /\ communication_mode = "None" => received = << >>
    /\ (frame_ops # << >> /\ frame_ops[Len(frame_ops)] = "packet_read_error") =>
          received = << >>

\* a read of two bytes: the update returns those two and nothing of the
\* zeroed rest of its buffer
C28_Witness ==
    /\ pc = "haptic"
    /\ frame_ops = << "packet_write", "packet_read" >>
    /\ delivered = << 90, 64 >>
    /\ received = << 90, 64 >>

C30_RumbleScaling ==
    Called("motor_intensity") =>
        LET b == argument[2]
            r == returned[1]
        IN  /\ r = b * 257
            /\ 0 <= r /\ r <= 65535
            /\ b = 0 => r = 0
            /\ b = 255 => r = 65535
            /\ b < 255 => r < motor_intensity(b + 1)

\* full intensity reaches the top of the sixteen-bit range
C30_Witness ==
    /\ Called("motor_intensity")
    /\ argument = << U8, 255 >>
    /\ returned = << 65535 >>

----------------------------------------------------------------------------
(* Properties of the frame loop: failed rumble, tracked controller *)

\* this step is a set_rumble call that returned an error
RumbleFailed ==
    /\ Len(rumble') = Len(rumble) + 1
    /\ ~rumble'[Len(rumble')].ok

\* C31: a set_rumble call that returns an error changes neither the
\* communication mode nor anything of the transport (bytes written, the
\* operations on it, the response held), the frame goes on to its sleep, and
\* after the sleep the next iteration polls events again.
C31_FailedRumbleNonFatal ==
    [][ /\ RumbleFailed =>
            /\ pc' = "sleep"
            /\ UNCHANGED << communication_mode, written, sent, received,
                            delivered, response, handshake_ops, frame_ops,
                            warned, active_controllers >>
        /\ pc = "sleep" => pc' = "events" ]_vars

\* the haptic device refused the rumble and the frame reached its sleep
C31_Witness ==
    /\ pc = "sleep"
    /\ Len(rumble) = 1
    /\ ~rumble[1].ok
    /\ communication_mode = "TwentyByte"

----------------------------------------------------------------------------
(* Properties of the packet builder: triggers from the right stick *)

\* the bit of a mask is 0 in a button byte: the button is pressed
Pressed(byte, mask) == (byte \div mask) % 2 = 0

\* C32: in right-stick trigger mode, for every i16 value y of the right
\* stick's Y axis, the packet never has L2 and R2 pressed together: the two
\* half-axis values are never both above 0, R2 is pressed exactly when
\* y > 16384 and L2 exactly when y < -16385.
C32_TriggersExclusive ==
    Called("map_right_stick_as_trigger") =>
        LET y == argument[2]
            r2 == Pressed(returned[1], Buttons2.R2)
            l2 == Pressed(returned[1], Buttons2.L2)
        IN  /\ ~(r2 /\ l2)
            /\ ~( /\ convert_half_axis_positive(I16, y) > 0
                  /\ convert_half_axis_negative(I16, y) > 0 )
            /\ r2 <=> y > 16384
            /\ l2 <=> y < -16385

\* the stick just past the lower threshold: L2 alone is pressed (bit 0 clear)
C32_Witness ==
    /\ Called("map_right_stick_as_trigger")
    /\ argument = << I16, -16386 >>
    /\ returned = << 254 >>

\* the session is inside an iteration of the frame loop
InFrameLoop == pc \in {"events", "update", "read", "haptic", "sleep"}

\* C33: while the registry holds no controller with instance id 0, whatever
\* other ids it holds and whatever the communication mode, an iteration of
\* the frame loop builds no packet, writes nothing to the transport, reads
\* nothing from it, prints no adapter warning and issues no rumble command;
\* it goes from the events straight to its sleep.
C33_OnlyControllerZero ==
    (InFrameLoop /\ 0 \notin active_controllers) =>
        /\ pc \in {"events", "update", "sleep"}
        /\ frame_ops = << >>
        /\ sent = << >>
        /\ written = << >>
        /\ received = << >>
        /\ delivered = << >>
        /\ rumble = << >>
        /\ ~warned

\* controller #1 alone is registered on a twenty-byte session and the
\* iteration has reached its sleep
C33_Witness ==
    /\ pc = "sleep"
    /\ active_controllers = {1}
    /\ communication_mode = "TwentyByte"
    /\ frame_ops = << >>
    /\ written = << >>

\* C34: in right-stick mode with both trigger axes in 0..32767, the
\* difference left trigger - right trigger lies in -32767..32767: the i16
\* subtraction gives the exact difference without wrapping, and the builder
\* returns its whole packet with the right-stick Y field made from it.
C34_TriggerDifferenceFits ==
    LET left == controller.axis["TriggerLeft"]
        right == controller.axis["TriggerRight"]
        difference == left - right
        v == handle_trigger_mode(controller, trigger_mode,
                                 default_values(controller))
    IN  ( /\ pc \in {"seven", "twenty"}
          /\ trigger_mode = "right-stick"
          /\ left \in 0..32767
          /\ right \in 0..32767 ) =>
            /\ -32767 <= difference /\ difference <= 32767
            /\ Fits(I16, difference)
            /\ v.right_stick_y_value = difference
            /\ Len(sent) = IF pc = "twenty" THEN 20 ELSE 7
            /\ sent[5] = OnWire(IF normalise_sticks THEN Shrunk(difference)
                                ELSE difference)

\* the right trigger fully pulled and the left one at rest: the most
\* negative difference, -32767, which encodes as 0x00
C34_Witness ==
    /\ pc = "twenty"
    /\ trigger_mode = "right-stick"
    /\ ~normalise_sticks
    /\ controller.axis["TriggerLeft"] = 0
    /\ controller.axis["TriggerRight"] = 32767
    /\ sent[5] = 0

----------------------------------------------------------------------------
(* Properties of the packet builder: bits against pressures, normalisation *)

\* the twelve inputs with a pressure byte: where the bit of each is (index
\* into the packet and mask) and where its pressure byte is
AnalogInputs ==
    { [bits |-> 2, mask |-> Buttons1.Right, pressure |-> 8],
      [bits |-> 2, mask |-> Buttons1.Left, pressure |-> 9],
      [bits |-> 2, mask |-> Buttons1.Up, pressure |-> 10],
      [bits |-> 2, mask |-> Buttons1.Down, pressure |-> 11],
      [bits |-> 3, mask |-> Buttons2.Triangle, pressure |-> 12],
      [bits |-> 3, mask |-> Buttons2.Circle, pressure |-> 13],
      [bits |-> 3, mask |-> Buttons2.Cross, pressure |-> 14],
      [bits |-> 3, mask |-> Buttons2.Square, pressure |-> 15],
      [bits |-> 3, mask |-> Buttons2.L1, pressure |-> 16],
      [bits |-> 3, mask |-> Buttons2.R1, pressure |-> 17],
      [bits |-> 3, mask |-> Buttons2.L2, pressure |-> 18],
      [bits |-> 3, mask |-> Buttons2.R2, pressure |-> 19] }

\* C35: in every twenty-byte packet, for each of the twelve inputs with a
\* pressure byte: a pressed input (bit 0) has a pressure of at least 0x80, a
\* pressure above 0x80 goes with a pressed input, and a pressure below 0x80
\* goes with a released input (bit 1).
C35_BitAgreesWithPressure ==
    pc = "twenty" =>
        \A input \in AnalogInputs :
            LET pressed == Pressed(sent[input.bits], input.mask)
                pressure == sent[input.pressure]
            IN  /\ pressed => pressure >= 128
                /\ pressure > 128 => pressed
                /\ pressure < 128 => ~pressed

\* the left trigger one step past half way: L2 is pressed and its pressure
\* is exactly 0x80
C35_Witness ==
    /\ pc = "twenty"
    /\ trigger_mode = "normal"
    /\ controller.axis["TriggerLeft"] = 16385
    /\ Pressed(sent[3], Buttons2.L2)
    /\ sent[18] = 128

\* the packet the same call builds with the normalisation flag the other way
WithFlagFlipped ==
    IF pc = "seven"
    THEN controller_map_seven_byte(controller, trigger_mode, ~normalise_sticks)
    ELSE controller_map_twenty_byte(controller, trigger_mode, ~normalise_sticks)

\* C36: for every controller state and trigger mode, the packet built with
\* stick normalisation on and the packet built with it off have the same
\* length and the same bytes 0..2 and 7..19; they can differ only in the four
\* stick bytes 3..6.
C36_NormalisationOnlySticks ==
    pc \in {"seven", "twenty"} =>
        /\ Len(WithFlagFlipped) = Len(sent)
        /\ \A i \in 1..Len(sent) :
              i \notin 4..7 => sent[i] = WithFlagFlipped[i]

\* a half-deflected left stick with a button held: the flag moves the stick
\* byte from 0xC0 to 0xC6 and nothing else
C36_Witness ==
    /\ pc = "twenty"
    /\ normalise_sticks
    /\ controller.axis["LeftX"] = 16384
    /\ controller.button["A"]
    /\ sent[6] = 198
    /\ WithFlagFlipped[6] = 192

============================================================================
